---- MODULE Spec2Model ----
(***************************************************************************)
(* Route construction and order/partner assignment of                      *)
(* server/python_services/services/route_optimization.py                   *)
(* (class RouteOptimizationService), as a state machine.                   *)
(*                                                                         *)
(* Numbers.  Coordinates are degrees restricted to multiples of 90, where  *)
(* every term of the haversine formula is exact: sin^2 of a multiple of 45 *)
(* degrees is 0, 1/2 or 1 and the cosine of a multiple of 90 degrees is    *)
(* -1, 0 or 1.  Distances are counted in quarter great circles             *)
(* (R * pi / 2 km); arithmetic is that of the reals, not of IEEE doubles.  *)
(* Probabilities and efficiency scores are percentages.                    *)
(*                                                                         *)
(* Randomness (random.random, random.sample, random.shuffle) is a          *)
(* nondeterministic choice.  Python lists are objects: the individuals of  *)
(* the genetic algorithm live in `heap` and populations hold references,   *)
(* so that in-place mutation through an alias is visible.                  *)
(***************************************************************************)
EXTENDS Integers, Sequences, FiniteSets, TLC

\* ------------------------------------------------------------- bounds
MaxPoints == 3
MaxPopulation == 3
MaxGenerations == 1
MaxAnts == 1
MaxIterations == 1
MaxOrders == 3
MaxPartners == 2
MaxCapacity == 1
RngPeriod == 6
MaxRunPopulation == 2
MaxColonyAnts == 2
MaxColonyIterations == 2

\* ------------------------------------------------- program constants
tournament_size == 3
default_crossover_rate == 80
default_mutation_rate == 10
default_efficiency_score == 50
default_base_speed == 30
default_stop_time == 5
default_evaporation_rate == 10
retry_attempts == 3
retry_delay == 1
cache_ttl == 300
health_check_interval == 60

\* ------------------------------------------------------------ helpers
Range(s) == {s[k] : k \in 1..Len(s)}

Abs(x) == IF x < 0 THEN -x ELSE x

RECURSIVE SumSeq(_)
SumSeq(s) == IF s = <<>> THEN 0 ELSE s[1] + SumSeq(Tail(s))

Perms(n) == {p \in [1..n -> 1..n] : \A a, b \in 1..n : p[a] = p[b] => a = b}

\* coordinates: latitude and longitude in degrees
Coord(lat, lon) == [latitude |-> lat, longitude |-> lon]

\* a point dict without a usable "location" entry
NoLocation == [latitude |-> 1, longitude |-> 1]

Locations == {Coord(0, 0), Coord(0, 90), Coord(0, 180)}

\* Route points are named by their position in delivery_points (the ids are
\* unique, so dict equality is equality of positions); None is no route.
None == <<0>>

\* --------------------------------------------- geometry (lines 541-556)
\* 2 * sin(d/2)^2 for d a multiple of 90 degrees
SinSqHalf2(d) ==
    CASE d % 360 = 0 -> 0
      [] d % 360 = 90 -> 1
      [] d % 360 = 180 -> 2
      [] d % 360 = 270 -> 1

\* cos(d) for d a multiple of 90 degrees
CosDeg(d) ==
    CASE d % 360 = 0 -> 1
      [] d % 360 = 90 -> 0
      [] d % 360 = 180 -> -1
      [] d % 360 = 270 -> 0

\* 2 * arcsin(sqrt(a)) in quarter circles, for a2 = 2 * a in {0, 1, 2}
TwoArcsinSqrt(a2) ==
    CASE a2 = 0 -> 0
      [] a2 = 1 -> 1
      [] a2 = 2 -> 2

\* the same arc, counted negative towards the south
signed_distance(point1, point2) ==
    LET dlat == point2.latitude - point1.latitude
        dlon == point2.longitude - point1.longitude
        a2 == SinSqHalf2(dlat)
                + CosDeg(point1.latitude) * CosDeg(point2.latitude) * SinSqHalf2(dlon)
    IN  IF dlat < 0 THEN -TwoArcsinSqrt(a2) ELSE TwoArcsinSqrt(a2)

calculate_distance(point1, point2) ==
    LET dlat == point2.latitude - point1.latitude
        dlon == point2.longitude - point1.longitude
        a2 == SinSqHalf2(dlat)
                + CosDeg(point1.latitude) * CosDeg(point2.latitude) * SinSqHalf2(dlon)
    IN  TwoArcsinSqrt(a2)

\* p["location"] raises KeyError for a point without location
HasLocation(pts, k) == pts[k] # NoLocation

calculate_total_distance(pts, route) ==
    IF Len(route) < 2 THEN 0
    ELSE SumSeq([k \in 1..(Len(route) - 1) |->
                    calculate_distance(pts[route[k]], pts[route[k + 1]])])

\* calculate_total_distance raises: TypeError on None (len(None)), KeyError
\* when an element it reads has no location
TotalDistanceRaises(pts, route) ==
    \/ route = None
    \/ Len(route) >= 2 /\ \E k \in 1..Len(route) : ~HasLocation(pts, route[k])

\* fitness 1 / (1 + total_distance) as the fraction <<numerator, denominator>>
calculate_fitness(pts, route) == <<1, 1 + calculate_total_distance(pts, route)>>

FracLess(f, g) == f[1] * g[2] < g[1] * f[2]

\* the first element of least key
FirstLeastIndex(keys) ==
    CHOOSE k \in 1..Len(keys) :
        /\ \A j \in 1..Len(keys) : ~FracLess(keys[j], keys[k])
        /\ \A j \in 1..(k - 1) : FracLess(keys[k], keys[j])

\* Python max(seq, key=...): the first element whose key no other exceeds
FirstMaxIndex(keys) ==
    CHOOSE k \in 1..Len(keys) :
        /\ \A j \in 1..Len(keys) : ~FracLess(keys[k], keys[j])
        /\ \A j \in 1..(k - 1) : FracLess(keys[j], keys[k])

\* the first element, whatever its key
FirstIndex(keys) == 1

\* Python min(seq, key=...): the first element of least key
FirstMinIndex(keys) ==
    CHOOSE k \in 1..Len(keys) :
        /\ \A j \in 1..Len(keys) : keys[k] <= keys[j]
        /\ \A j \in 1..(k - 1) : keys[j] > keys[k]

RemoveAt(s, k) == SubSeq(s, 1, k - 1) \o SubSeq(s, k + 1, Len(s))

\* ------------------------------------------ greedy (lines 472-493)
RECURSIVE GreedyLoop(_, _, _, _)
GreedyLoop(pts, current_point, unvisited, route) ==
    IF unvisited = <<>> THEN route
    ELSE LET keys == [k \in 1..Len(unvisited) |->
                         calculate_distance(pts[current_point], pts[unvisited[k]])]
             nearest == FirstMinIndex(keys)
             nearest_point == unvisited[nearest]
         IN  GreedyLoop(pts, nearest_point, RemoveAt(unvisited, nearest),
                        Append(route, nearest_point))

GreedyRoute(pts) ==
    GreedyLoop(pts, 1, [k \in 1..(Len(pts) - 1) |-> k + 1], <<1>>)

\* the first min() reads the location of points[0] and of every other point
GreedyRaises(pts) ==
    Len(pts) >= 2 /\ \E k \in 1..Len(pts) : ~HasLocation(pts, k)

\* ------------------------------ genetic helpers (lines 776-837)
\* random.random() in [0, 1), as a percentage
RandomValues == {0, 50, 99}

\* the orderings random.shuffle can leave a copy of delivery_points in
Shuffles(n) == {[k \in 1..n |-> p[k]] : p \in Perms(n)}

\* range(len(population)) indices (1-based) that can win one tournament:
\* random.sample draws tournament_size distinct indices, the first drawn
\* index of greatest fitness wins
TournamentWinners(fitness_scores) ==
    LET idx == 1..Len(fitness_scores)
    IN  {w \in idx :
            \E T \in SUBSET idx :
                /\ Cardinality(T) = tournament_size
                /\ w \in T
                /\ \A t \in T : ~FracLess(fitness_scores[w], fitness_scores[t])}

RECURSIVE FillRemaining(_, _, _)
FillRemaining(child, remaining, k) ==
    IF k > Len(child) THEN child
    ELSE IF child[k] = -1
         THEN FillRemaining([child EXCEPT ![k] = remaining[1]], Tail(remaining), k + 1)
         ELSE FillRemaining(child, remaining, k + 1)

\* no crossover: the first parent as it is
FirstParent(parent1, parent2, start, end) == parent1

\* order crossover of lines 806-829; start, end are 0-based, start < end
OrderCrossover(parent1, parent2, start, end) ==
    LET size == Len(parent1)
        segment == {parent1[k] : k \in (start + 1)..end}
        child == [k \in 1..size |->
                     IF k > start /\ k <= end THEN parent1[k] ELSE -1]
        InRemaining(x) == x \notin segment
        remaining == SelectSeq(parent2, InRemaining)
    IN  FillRemaining(child, remaining, 1)

\* crossover (lines 800-829) on heap h: the outcomes [raised, heap, child1, child2]
CrossoverOutcomes(h, parent1, parent2, crossover_rate) ==
    LET size == Len(h[parent1])
        passed == {r \in RandomValues : r > crossover_rate}
        crossed == RandomValues \ passed
    IN  (IF passed = {} THEN {}
         ELSE {[raised |-> FALSE, heap |-> h, child1 |-> parent1, child2 |-> parent2]})
        \cup
        (IF crossed = {} THEN {}
         ELSE IF size < 2
              THEN {[raised |-> TRUE, heap |-> h, child1 |-> parent1, child2 |-> parent2]}
              ELSE {[raised |-> FALSE,
                     heap |-> h \o <<OrderCrossover(h[parent1], h[parent2], c[1], c[2]),
                                    OrderCrossover(h[parent2], h[parent1], c[1], c[2])>>,
                     child1 |-> Len(h) + 1,
                     child2 |-> Len(h) + 2] :
                       c \in {c \in (0..(size - 1)) \X (0..(size - 1)) : c[1] < c[2]}})

Swap(route, a, b) == [route EXCEPT ![a] = route[b], ![b] = route[a]]

\* mutate (lines 831-837) of the object `child` of heap h, in place
MutateOutcomes(h, child, mutation_rate) ==
    LET size == Len(h[child])
        mutated == {r \in RandomValues : r < mutation_rate}
        kept == RandomValues \ mutated
    IN  (IF kept = {} THEN {} ELSE {[raised |-> FALSE, heap |-> h]})
        \cup
        (IF mutated = {} THEN {}
         ELSE IF size < 2
              THEN {[raised |-> TRUE, heap |-> h]}
              ELSE {[raised |-> FALSE,
                     heap |-> [h EXCEPT ![child] = Swap(h[child], ab[1], ab[2])]] :
                        ab \in {ab \in (1..size) \X (1..size) : ab[1] # ab[2]}})

\* one pass of the loop body of lines 413-417: crossover, then the two mutations
PairOutcomes(h, parent1, parent2, crossover_rate, mutation_rate) ==
    UNION {
        IF x.raised THEN {x}
        ELSE UNION {
            IF m1.raised THEN {[x EXCEPT !.raised = TRUE]}
            ELSE {[raised |-> m2.raised, heap |-> m2.heap,
                   child1 |-> x.child1, child2 |-> x.child2] :
                     m2 \in MutateOutcomes(m1.heap, x.child2, mutation_rate)} :
            m1 \in MutateOutcomes(x.heap, x.child1, mutation_rate)} :
        x \in CrossoverOutcomes(h, parent1, parent2, crossover_rate)}

\* objects no longer referenced are dropped and the rest renumbered in order of
\* first reference (the heap of a state is determined by what it can reach)
FirstRef(refs, o) == CHOOSE k \in 1..Len(refs) : refs[k] = o /\ \A j \in 1..(k - 1) : refs[j] # o

NewRef(refs, o) == Cardinality({refs[j] : j \in 1..FirstRef(refs, o)})

CompactRefs(refs) == [k \in 1..Len(refs) |-> NewRef(refs, refs[k])]

CompactHeap(refs, h) ==
    [n \in 1..Cardinality(Range(refs)) |->
        h[CHOOSE o \in Range(refs) : NewRef(refs, o) = n]]

\* ---------------------------------------------------------------- state
VARIABLES
    pc,              \* where the request being served stands
    data,            \* the request dict
    algorithm,       \* optimize_delivery_route: the strategy name after line 40
    invoked,         \* the strategies called while serving the request, in order
    hybrid_i,        \* hybrid_optimization: strategies of `algorithms` started
    results,         \* hybrid_optimization: results of the strategies that returned
    failed,          \* hybrid_optimization: strategies logged as failed (line 527)
    heap,            \* genetic: the route lists alive, by reference
    population,      \* genetic: references of the current population
    selected,        \* genetic: references of the mating pool
    new_population,  \* genetic: references of the children so far
    generation,      \* genetic: generations completed
    i,               \* genetic: index of the pair loop of line 411
    iteration,       \* ant colony: iterations completed
    best_route,      \* ant colony: best route so far (None at first)
    best_distance,   \* ant colony: its distance (Inf at first)
    pheromone_matrix, \* ant colony: the pheromone on every edge (<<>>: no matrix)
    best_evaluated,  \* history: least distance of the individuals the genetic run
                     \* of this request has evaluated so far (Inf: none)
    ant_constructed, \* history: the routes the ants of this request's ant
                     \* colony run have built so far, in order
    result,          \* the dict the strategy returned to optimize_delivery_route
    assignment_matrix, \* assign_orders_to_partners: the cost matrix (<<>>: none built)
    response,        \* what the caller got: a result dict or the exception raised
    rng_state,       \* the state of the module-level generator of `import random`
    rng_start,       \* history: its state before the first draw
    rng_writer,      \* history: the invocation whose draw advanced it last (0: none)
    runs,            \* the concurrent genetic invocations drawing from it
    cancel_requested, \* the caller has abandoned the request being served
    stop_by,         \* history: the generations or iterations a run that stops at
                     \* the next boundary after the cancellation has completed
    timed_out,       \* the sub-strategies of a hybrid request that were still
                     \* running when their time allowance ended
    measured,        \* the calls of calculate_distance made on their own, with
                     \* what each returned
    crossed,         \* a call of crossover made on its own: the parents, the
                     \* cut and what it returned
    request,         \* client: the last call of _make_request, with what the
                     \* server answered to each attempt and what came of it
    now,             \* time.time(), in seconds
    service_healthy, \* whether GET /health answers {"status": "healthy"} now
    cache,           \* manager: self.cache, per key an entry or NoEntry
    stored,          \* history: per key the result last cached and when, unless
                     \* clear_cache was called since
    is_healthy,      \* manager: self.is_healthy
    last_health_check, \* manager: self.last_health_check
    last             \* history: the manager call made last and what it did

gaVars == <<heap, population, selected, new_population, generation, i>>
acoVars == <<iteration, best_route, best_distance, pheromone_matrix>>
assignVars == <<assignment_matrix>>
hybridVars == <<hybrid_i, results, failed>>
vars == <<pc, data, algorithm, invoked, hybrid_i, results, failed, heap, population,
          selected, new_population, generation, i, iteration, best_route,
          best_distance, pheromone_matrix, best_evaluated, ant_constructed, result,
          assignment_matrix, response,
          rng_state, rng_start, rng_writer, runs, cancel_requested, stop_by,
          timed_out, measured, crossed, request, now, service_healthy, cache, stored,
          is_healthy, last_health_check, last>>

\* one request at a time is served by the state above
serviceVars == <<pc, data, algorithm, invoked, hybrid_i, results, failed, heap,
                 population, selected, new_population, generation, i, iteration,
                 best_route, best_distance, pheromone_matrix, best_evaluated,
                 ant_constructed, result,
                 assignment_matrix, response>>

\* the generator and the invocations that share it
rngVars == <<rng_state, rng_start, rng_writer, runs>>

\* what the service leaves alone while it serves one request
cancelVars == <<cancel_requested, stop_by>>

timeoutVars == <<timed_out>>

distanceVars == <<measured>>

crossoverVars == <<crossed>>

\* the client of integration/api_client.py and its manager
retryVars == <<request>>

managerVars == <<now, service_healthy, cache, stored, is_healthy, last_health_check, last>>

clientVars == <<retryVars, managerVars>>

envVars == <<rngVars, cancelVars, timeoutVars, distanceVars, crossoverVars, clientVars>>

\* float('inf')
Inf == -1

\* a key the dict does not have
Absent == -1

NoData == [op |-> "none"]
NoResult == [route |-> None, algorithm |-> "none"]
NoResponse == [status |-> "none"]

\* the exception the caller sees
Error(type, message) == [status |-> "error", type |-> type, message |-> message]

\* ---------------------------------------------------------------- inputs
\* delivery points at pairwise different places, any of them without location
PointLists ==
    {pts \in UNION {[1..n -> Locations \cup {NoLocation}] : n \in 0..MaxPoints} :
        \A a, b \in 1..Len(pts) : pts[a] = pts[b] => a = b}

PopulationSizes == {0, tournament_size - 1} \cup (tournament_size..MaxPopulation)

ConstraintsOf(alg, ps, g, ac, it) ==
    [algorithm |-> alg, population_size |-> ps, generations |-> g,
     ant_count |-> ac, iterations |-> it,
     base_speed |-> Absent, stop_time |-> Absent,
     base_speed_kmh |-> Absent, stop_minutes |-> Absent]

\* c with any of the keys "base_speed", "stop_time", "base_speed_kmh" and
\* "stop_minutes" given (speeds in km/h that divide 60, minutes per stop)
SpeedVariants(c) ==
    {[c EXCEPT !.base_speed = bs, !.stop_time = st,
               !.base_speed_kmh = bk, !.stop_minutes = sm] :
        bs \in {Absent, 60}, st \in {Absent, 10}, bk \in {Absent, 20}, sm \in {Absent, 2}}

\* a JSON array or object under "algorithm", such as ["greedy"]: a list or a
\* dict, which Python cannot hash
Unhashable == "unhashable"

\* the parameters a request does not vary
BaseConstraints(alg) == ConstraintsOf(alg, tournament_size, 0, MaxAnts, MaxIterations)

\* the parameters vary where the requested strategy reads them.  A hybrid
\* request varies the population size and the ant colony parameters with no
\* generation to run; with generations, its population is too small for a
\* tournament (the genetic run of a "genetic" request is the same code)
ConstraintsSet ==
    {BaseConstraints(alg) :
        alg \in {"greedy", "neural_network", "absent", "simulated_annealing",
                 Unhashable}}
    \cup {ConstraintsOf("genetic", ps, g, MaxAnts, MaxIterations) :
        ps \in PopulationSizes, g \in 0..MaxGenerations}
    \cup {ConstraintsOf("ant_colony", tournament_size, 0, ac, it) :
        ac \in 0..MaxColonyAnts, it \in 0..MaxColonyIterations}
    \cup {ConstraintsOf("hybrid", ps, 0, ac, it) :
        ps \in PopulationSizes, ac \in 0..MaxAnts, it \in 0..MaxIterations}
    \cup {ConstraintsOf("hybrid", tournament_size - 1, g, MaxAnts, MaxIterations) :
        g \in 1..MaxGenerations}
    \cup SpeedVariants(BaseConstraints("greedy"))

\* has_points: whether the dict has the key "delivery_points"
RouteRequests ==
    {[op |-> "optimize_delivery_route", has_points |-> TRUE,
      delivery_points |-> pts, constraints |-> c] :
        pts \in PointLists, c \in ConstraintsSet}
    \cup {[op |-> "optimize_delivery_route", has_points |-> FALSE,
           delivery_points |-> <<>>, constraints |-> c] : c \in ConstraintsSet}

\* data.get("delivery_points", [])
delivery_points == IF data.has_points THEN data.delivery_points ELSE <<>>

constraints == data.constraints

\* self.algorithms (lines 18-24)
algorithms == {"genetic", "ant_colony", "greedy", "neural_network", "hybrid"}

\* hybrid_optimization's list of line 513
hybrid_algorithms == <<"genetic", "ant_colony", "greedy">>

ServiceInit ==
    /\ pc = "idle"
    /\ data = NoData
    /\ algorithm = "none"
    /\ invoked = <<>>
    /\ hybrid_i = 0
    /\ results = <<>>
    /\ failed = <<>>
    /\ heap = <<>>
    /\ population = <<>>
    /\ selected = <<>>
    /\ new_population = <<>>
    /\ generation = 0
    /\ i = 0
    /\ iteration = 0
    /\ best_route = None
    /\ best_distance = Inf
    /\ pheromone_matrix = <<>>
    /\ best_evaluated = Inf
    /\ ant_constructed = <<>>
    /\ result = NoResult
    /\ assignment_matrix = <<>>
    /\ response = NoResponse

\* no concurrent invocations
RngInit ==
    /\ rng_state = 0
    /\ rng_start = 0
    /\ rng_writer = 0
    /\ runs = <<>>

\* no cancellation, no timeout
CancelInit ==
    /\ cancel_requested = FALSE
    /\ stop_by = Inf
    /\ timed_out = {}

\* no call of calculate_distance on its own
DistanceInit == measured = <<>>

\* no call of crossover on its own
NoCrossover == [called |-> FALSE]

CrossoverInit == crossed = NoCrossover

\* PythonServiceClient.__init__ and PythonServiceManager.__init__ have run, no
\* call was made; the clock reads StartClock
StartClock == 120

CacheKeys == {"daily_report_1", "product_recommendations_anonymous"}

NoEntry == [cached |-> FALSE]

NoRequest == [called |-> FALSE]

NoCall == [op |-> "none"]

ClientInit ==
    /\ request = NoRequest
    /\ now = StartClock
    /\ service_healthy = TRUE
    /\ cache = [key \in CacheKeys |-> NoEntry]
    /\ stored = [key \in CacheKeys |-> NoEntry]
    /\ is_healthy = FALSE
    /\ last_health_check = 0
    /\ last = NoCall

Init ==
    /\ ServiceInit
    /\ RngInit
    /\ CancelInit
    /\ DistanceInit
    /\ CrossoverInit
    /\ ClientInit

\* the locals of a strategy die with its frame
GenIdle ==
    /\ heap' = <<>>
    /\ population' = <<>>
    /\ selected' = <<>>
    /\ new_population' = <<>>
    /\ generation' = 0
    /\ i' = 0

AcoIdle ==
    /\ iteration' = 0
    /\ best_route' = None
    /\ best_distance' = Inf
    /\ pheromone_matrix' = <<>>

\* a strategy returns res to its caller: hybrid_optimization (line 525) or
\* optimize_delivery_route (line 43)
StrategyReturns(res) ==
    IF algorithm = "hybrid"
    THEN /\ results' = Append(results, res)
         /\ pc' = "hybrid"
         /\ UNCHANGED <<result, response, failed>>
    ELSE /\ result' = res
         /\ pc' = "metrics"
         /\ UNCHANGED <<results, response, failed>>

\* a strategy raises: caught and logged by hybrid_optimization (lines 526-528),
\* re-raised to the caller by optimize_delivery_route (lines 60-62)
StrategyRaises(name, type, message) ==
    IF algorithm = "hybrid"
    THEN /\ failed' = Append(failed, name)
         /\ pc' = "hybrid"
         /\ UNCHANGED <<results, result, response>>
    ELSE /\ response' = Error(type, message)
         /\ pc' = "done"
         /\ UNCHANGED <<results, result, failed>>

\* ------------------------------- optimize_delivery_route (lines 27-43)
NoPointsOnlyIfKeyMissing(d) == ~d.has_points

\* lines 30-35: `not delivery_points` after data.get("delivery_points", [])
NoDeliveryPoints(d) == (IF d.has_points THEN d.delivery_points ELSE <<>>) = <<>>

\* lines 29-43 for the request dict d
ServeRoute(d) ==
    /\ data' = d
    /\ LET requested == IF d.constraints.algorithm = "absent" THEN "hybrid"
                        ELSE d.constraints.algorithm
           chosen == IF requested \notin algorithms THEN "hybrid" ELSE requested
       IN  IF NoDeliveryPoints(d)
           THEN /\ response' = Error("ValueError", "No delivery points provided")
                /\ pc' = "done"
                /\ UNCHANGED <<algorithm, invoked>>
           ELSE IF requested = Unhashable
           THEN \* line 38: `algorithm not in self.algorithms` hashes the value
                /\ response' = Error("TypeError", "unhashable type: 'list'")
                /\ pc' = "done"
                /\ UNCHANGED <<algorithm, invoked>>
           ELSE /\ algorithm' = chosen
                /\ invoked' = <<chosen>>
                /\ pc' = chosen
                /\ UNCHANGED response
    /\ UNCHANGED <<hybridVars, gaVars, best_evaluated, ant_constructed, acoVars, result, assignVars>>

optimize_delivery_route ==
    /\ pc = "idle"
    /\ UNCHANGED envVars
    /\ \E d \in RouteRequests : ServeRoute(d)

\* ------------------------------------------ greedy (lines 472-493)
greedy_optimization ==
    /\ pc = "greedy"
    /\ UNCHANGED envVars
    /\ IF GreedyRaises(delivery_points)
       THEN StrategyRaises("greedy", "KeyError", "location")
       ELSE StrategyReturns([route |-> GreedyRoute(delivery_points), algorithm |-> "greedy"])
    /\ UNCHANGED <<data, algorithm, invoked, hybrid_i, gaVars, best_evaluated, ant_constructed, acoVars, assignVars>>

\* ------------------------------- neural network (lines 495-506)
neural_network_optimization ==
    /\ pc = "neural_network"
    /\ UNCHANGED envVars
    /\ invoked' = Append(invoked, "greedy")
    /\ IF GreedyRaises(delivery_points)
       THEN StrategyRaises("neural_network", "KeyError", "location")
       ELSE StrategyReturns([route |-> GreedyRoute(delivery_points),
                             algorithm |-> "neural_network"])
    /\ UNCHANGED <<data, algorithm, hybrid_i, gaVars, best_evaluated, ant_constructed, acoVars, assignVars>>

\* ------------------------------------- ant colony (lines 432-470)
\* generate_ant_route (lines 840-843) returns delivery_points itself
generate_ant_route(pts) == [k \in 1..Len(pts) |-> k]

\* np.ones((n, n)) of line 444; a pheromone is the fraction <<numerator, denominator>>
np_ones(n) == [a \in 1..n |-> [b \in 1..n |-> <<1, 1>>]]

\* update_pheromones (lines 845-848) returns the matrix it was given
update_pheromones(matrix, ant_routes, evaporation_rate) == matrix

\* the best so far, whatever the ants built
BestSoFar(pts, ant_routes, best) == best

\* the scan of lines 460-464 over ant_routes, from the best so far
RECURSIVE BestOfAnts(_, _, _)
BestOfAnts(pts, ant_routes, best) ==
    IF ant_routes = <<>> THEN best
    ELSE LET route == Head(ant_routes)
             distance == calculate_total_distance(pts, route)
         IN  BestOfAnts(pts, Tail(ant_routes),
                        IF best.distance = Inf \/ distance < best.distance
                        THEN [route |-> route, distance |-> distance]
                        ELSE best)

\* one iteration of the loop of line 449; the first one comes after the
\* matrix of line 444 is made
ant_colony_iteration ==
    /\ pc = "ant_colony"
    /\ UNCHANGED envVars
    /\ iteration < constraints.iterations
    /\ LET ant_routes == [ant \in 1..constraints.ant_count |->
                             generate_ant_route(delivery_points)]
           matrix == IF iteration = 0 THEN np_ones(Len(delivery_points))
                     ELSE pheromone_matrix
       IN  /\ ant_constructed' = ant_constructed \o ant_routes
           /\ IF \E a \in 1..Len(ant_routes) :
                     TotalDistanceRaises(delivery_points, ant_routes[a])
              THEN /\ StrategyRaises("ant_colony", "KeyError", "location")
                   /\ AcoIdle
              ELSE LET best == BestOfAnts(delivery_points, ant_routes,
                                          [route |-> best_route, distance |-> best_distance])
                   IN  /\ pheromone_matrix' =
                              update_pheromones(matrix, ant_routes, default_evaporation_rate)
                       /\ best_route' = best.route
                       /\ best_distance' = best.distance
                       /\ iteration' = iteration + 1
                       /\ UNCHANGED <<pc, results, result, response, failed>>
    /\ UNCHANGED <<data, algorithm, invoked, hybrid_i, gaVars, best_evaluated, assignVars>>

\* lines 466-470
ant_colony_return ==
    /\ pc = "ant_colony"
    /\ UNCHANGED envVars
    /\ iteration >= constraints.iterations
    /\ StrategyReturns([route |-> best_route, algorithm |-> "ant_colony"])
    /\ AcoIdle
    /\ UNCHANGED <<data, algorithm, invoked, hybrid_i, gaVars, best_evaluated, ant_constructed, assignVars>>

\* ---------------------------------------- genetic (lines 388-430)
\* calculate_fitness of every individual of a population
FitnessScores(pts, h, pop) == [k \in 1..Len(pop) |-> calculate_fitness(pts, h[pop[k]])]

FitnessRaises(pts, h, pop) ==
    \E k \in 1..Len(pop) : TotalDistanceRaises(pts, h[pop[k]])

\* the least of best and the distances of the individuals of pop (Inf: none)
LeastEvaluated(best, pts, h, pop) ==
    LET distances == {calculate_total_distance(pts, h[pop[k]]) : k \in 1..Len(pop)}
                        \cup (IF best = Inf THEN {} ELSE {best})
    IN  IF distances = {} THEN Inf
        ELSE CHOOSE d \in distances : \A e \in distances : d <= e

\* lines 390-399: the parameters are read, the population is initialized
genetic_initialize ==
    /\ pc = "genetic"
    /\ UNCHANGED envVars
    /\ \E shuffled \in [1..constraints.population_size -> Shuffles(Len(delivery_points))] :
          /\ heap' = [k \in 1..constraints.population_size |-> shuffled[k]]
          /\ population' = [k \in 1..constraints.population_size |-> k]
    /\ pc' = "genetic_loop"
    /\ UNCHANGED <<data, algorithm, invoked, hybridVars, selected, new_population,
                   generation, i, best_evaluated, ant_constructed, acoVars, result, assignVars, response>>

\* lines 402-410: fitness evaluation and tournament selection of one generation
genetic_select ==
    /\ pc = "genetic_loop"
    /\ UNCHANGED envVars
    /\ generation < constraints.generations
    /\ best_evaluated' =
          IF FitnessRaises(delivery_points, heap, population) THEN best_evaluated
          ELSE LeastEvaluated(best_evaluated, delivery_points, heap, population)
    /\ IF FitnessRaises(delivery_points, heap, population)
       THEN /\ StrategyRaises("genetic", "KeyError", "location")
            /\ GenIdle
       ELSE IF population # <<>> /\ Len(population) < tournament_size
       THEN /\ StrategyRaises("genetic", "ValueError", "Sample larger than population")
            /\ GenIdle
       ELSE IF constraints.population_size = 0
       THEN \* no individual to select, and the loop of line 411 has no pass
            /\ population' = <<>>
            /\ generation' = generation + 1
            /\ UNCHANGED <<pc, results, result, response, failed, heap, selected,
                           new_population, i>>
       ELSE \E winners \in [1..Len(population) ->
                    TournamentWinners(FitnessScores(delivery_points, heap, population))] :
                /\ selected' = [k \in 1..Len(population) |-> population[winners[k]]]
                /\ new_population' = <<>>
                /\ i' = 0
                /\ pc' = "genetic_pair"
                /\ UNCHANGED <<results, result, response, failed, heap, population,
                               generation>>
    /\ UNCHANGED <<data, algorithm, invoked, hybrid_i, ant_constructed, acoVars, assignVars>>

\* the generation ends with the children of whole pairs only
EndGenerationOfPairs(h, children) ==
    LET paired == SubSeq(children, 1, 2 * (Len(children) \div 2))
    IN  /\ population' = CompactRefs(paired)
        /\ heap' = CompactHeap(paired, h)
        /\ selected' = <<>>
        /\ new_population' = <<>>
        /\ i' = 0
        /\ generation' = generation + 1
        /\ pc' = "genetic_loop"

\* after the last pass of the loop of line 411: line 421, next generation
EndGeneration(h, children) ==
    /\ population' = CompactRefs(children)
    /\ heap' = CompactHeap(children, h)
    /\ selected' = <<>>
    /\ new_population' = <<>>
    /\ i' = 0
    /\ generation' = generation + 1
    /\ pc' = "genetic_loop"

\* one pass of the loop of lines 411-419 (i counts from 0)
genetic_pair ==
    /\ pc = "genetic_pair"
    /\ UNCHANGED envVars
    /\ IF i + 1 < Len(selected)
       THEN \E o \in PairOutcomes(heap, selected[i + 1], selected[i + 2],
                                  default_crossover_rate, default_mutation_rate) :
               IF o.raised
               THEN /\ StrategyRaises("genetic", "ValueError",
                                      "Sample larger than population")
                    /\ GenIdle
               ELSE /\ IF i + 2 < constraints.population_size
                       THEN /\ heap' = o.heap
                            /\ new_population' = new_population \o <<o.child1, o.child2>>
                            /\ i' = i + 2
                            /\ UNCHANGED <<pc, population, selected, generation>>
                       ELSE EndGeneration(o.heap, new_population \o <<o.child1, o.child2>>)
                    /\ UNCHANGED <<results, result, response, failed>>
       ELSE /\ IF i + 2 < constraints.population_size
               THEN /\ new_population' = Append(new_population, selected[i + 1])
                    /\ i' = i + 2
                    /\ UNCHANGED <<pc, heap, population, selected, generation>>
               ELSE EndGeneration(heap, Append(new_population, selected[i + 1]))
            /\ UNCHANGED <<results, result, response, failed>>
    /\ UNCHANGED <<data, algorithm, invoked, hybrid_i, best_evaluated, ant_constructed, acoVars, assignVars>>

\* lines 423-430: the fittest of the last population
genetic_return ==
    /\ pc = "genetic_loop"
    /\ UNCHANGED envVars
    /\ generation >= constraints.generations
    /\ IF population = <<>>
       THEN StrategyRaises("genetic", "ValueError", "max() arg is an empty sequence")
       ELSE IF FitnessRaises(delivery_points, heap, population)
       THEN StrategyRaises("genetic", "KeyError", "location")
       ELSE StrategyReturns(
                [route |-> heap[population[FirstMaxIndex(
                                FitnessScores(delivery_points, heap, population))]],
                 algorithm |-> "genetic"])
    /\ best_evaluated' =
          IF population = <<>> \/ FitnessRaises(delivery_points, heap, population)
          THEN best_evaluated
          ELSE LeastEvaluated(best_evaluated, delivery_points, heap, population)
    /\ GenIdle
    /\ UNCHANGED <<data, algorithm, invoked, hybrid_i, ant_constructed, acoVars, assignVars>>

\* ----------------------------------------- hybrid (lines 508-538)
\* lines 516-523: the next strategy of the list is started
hybrid_next ==
    /\ pc = "hybrid"
    /\ UNCHANGED envVars
    /\ hybrid_i < Len(hybrid_algorithms)
    /\ hybrid_i' = hybrid_i + 1
    /\ invoked' = Append(invoked, hybrid_algorithms[hybrid_i + 1])
    /\ pc' = hybrid_algorithms[hybrid_i + 1]
    /\ UNCHANGED <<data, algorithm, results, failed, gaVars, best_evaluated, ant_constructed, acoVars, result, response, assignVars>>

KeepAlgorithm(best_result) == best_result

\* line 535: best_result["algorithm"] = "hybrid"
RenameHybrid(best_result) == [best_result EXCEPT !.algorithm = "hybrid"]

\* lines 530-538: the result of greatest fitness, renamed "hybrid"
hybrid_select ==
    /\ pc = "hybrid"
    /\ UNCHANGED envVars
    /\ hybrid_i >= Len(hybrid_algorithms)
    /\ IF results = <<>>
       THEN /\ response' = Error("ValueError", "All optimization algorithms failed")
            /\ pc' = "done"
            /\ UNCHANGED <<result, results>>
       ELSE IF \E k \in 1..Len(results) :
                   TotalDistanceRaises(delivery_points, results[k].route)
       THEN /\ response' = Error("TypeError", "object of type 'NoneType' has no len()")
            /\ pc' = "done"
            /\ UNCHANGED <<result, results>>
       ELSE LET keys == [k \in 1..Len(results) |->
                            calculate_fitness(delivery_points, results[k].route)]
                best == FirstMaxIndex(keys)
            IN  \* best_result is the dict held by results: renamed there too
                /\ results' = [results EXCEPT ![best] = RenameHybrid(results[best])]
                /\ result' = RenameHybrid(results[best])
                /\ pc' = "metrics"
                /\ UNCHANGED response
    /\ UNCHANGED <<data, algorithm, invoked, hybrid_i, failed, gaVars, best_evaluated, ant_constructed, acoVars, assignVars>>

\* ---------------- optimize_delivery_route, the metrics (lines 45-62)
\* constraints.get(key, default)
Get(value, default) == IF value = Absent THEN default ELSE value

\* the estimate from the keys "base_speed_kmh" and "stop_minutes"
estimate_from_kmh_keys(pts, route, c) ==
    [travel_time |->
        (calculate_total_distance(pts, route) * 60) \div Get(c.base_speed_kmh, default_base_speed),
     stop_time_total |-> Len(route) * Get(c.stop_minutes, default_stop_time)]

\* estimate_delivery_time (lines 569-578).  The value returned is
\* travel_time + stop_time_total in minutes; the distance unit being a quarter
\* great circle and no whole number of km, the sum is kept as its two terms:
\* travel_time in minutes per km of the unit (exact, the speeds divide 60),
\* stop_time_total in minutes
estimate_delivery_time(pts, route, c) ==
    [travel_time |->
        (calculate_total_distance(pts, route) * 60) \div Get(c.base_speed, default_base_speed),
     stop_time_total |-> Len(route) * Get(c.stop_time, default_stop_time)]

optimize_metrics ==
    /\ pc = "metrics"
    /\ UNCHANGED envVars
    /\ IF TotalDistanceRaises(delivery_points, result.route)
       THEN response' = Error("TypeError", "object of type 'NoneType' has no len()")
       ELSE response' = [status |-> "ok",
                         optimized_route |-> result.route,
                         total_distance |->
                             calculate_total_distance(delivery_points, result.route),
                         estimated_time |->
                             estimate_delivery_time(delivery_points, result.route, constraints),
                         algorithm_used |-> algorithm]
    /\ pc' = "done"
    /\ UNCHANGED <<data, algorithm, invoked, hybridVars, gaVars, best_evaluated, ant_constructed, acoVars, result, assignVars>>

\* ------------------------------- assignment (lines 64-111, 594-610)
\* partner.get("efficiency_score", 0.5), in percent; Absent: the key is missing
efficiency_score_of(partner) ==
    IF partner.efficiency_score = Absent THEN default_efficiency_score
    ELSE partner.efficiency_score

PartnerLocations == {Coord(0, 0), Coord(0, 180)}

EfficiencyScores == {Absent, 100}

Partners ==
    [location : PartnerLocations, efficiency_score : EfficiencyScores,
     capacity : 0..MaxCapacity]

OrderLists == UNION {[1..n -> Locations] : n \in 0..MaxOrders}

PartnerLists == UNION {[1..m -> Partners] : m \in 0..MaxPartners}

\* has_orders, has_partners: whether the dict has the keys "orders", "partners"
AssignRequests ==
    {[op |-> "assign_orders_to_partners", has_orders |-> TRUE, orders |-> os,
      has_partners |-> TRUE, partners |-> ps] : os \in OrderLists, ps \in PartnerLists}
    \cup {[op |-> "assign_orders_to_partners", has_orders |-> FALSE, orders |-> <<>>,
           has_partners |-> TRUE, partners |-> ps] : ps \in PartnerLists}
    \cup {[op |-> "assign_orders_to_partners", has_orders |-> TRUE, orders |-> os,
           has_partners |-> FALSE, partners |-> <<>>] : os \in OrderLists}

\* lines 594-605; the costs are in hundredths: distance * (1 + (1 - efficiency))
create_assignment_matrix(orders, partners) ==
    [a \in 1..Len(orders) |->
        [b \in 1..Len(partners) |->
            calculate_distance(orders[a], partners[b].location)
                * (100 + (100 - efficiency_score_of(partners[b])))]]

\* the sets of <<row, column>> pairs scipy's linear_sum_assignment chooses
\* among: min(rows, columns) pairs, no row and no column twice
Injections(k, n) == {f \in [1..k -> 1..n] : \A a, b \in 1..k : f[a] = f[b] => a = b}

Matchings(n, m) ==
    IF n <= m
    THEN {{<<r, f[r]>> : r \in 1..n} : f \in Injections(n, m)}
    ELSE {{<<g[c], c>> : c \in 1..m} : g \in Injections(m, n)}

RECURSIVE MatchingCost(_, _)
MatchingCost(cost_matrix, M) ==
    IF M = {} THEN 0
    ELSE LET x == CHOOSE x \in M : TRUE
         IN  cost_matrix[x[1]][x[2]] + MatchingCost(cost_matrix, M \ {x})

\* the pairs of a matching as the list zip(row_indices, col_indices), rows ascending
RECURSIVE PairList(_)
PairList(M) ==
    IF M = {} THEN <<>>
    ELSE LET x == CHOOSE x \in M : \A y \in M : x[1] <= y[1]
         IN  <<x>> \o PairList(M \ {x})

\* every row in turn takes the cheapest column still free
RECURSIVE NearestFree(_, _, _, _)
NearestFree(cost_matrix, r, free, taken) ==
    IF r > Len(cost_matrix) \/ free = {} THEN taken
    ELSE LET c == CHOOSE c \in free :
                      /\ \A c2 \in free : cost_matrix[r][c] <= cost_matrix[r][c2]
                      /\ \A c2 \in free : cost_matrix[r][c] = cost_matrix[r][c2] => c <= c2
         IN  NearestFree(cost_matrix, r + 1, free \ {c}, Append(taken, <<r, c>>))

row_by_row_assignment(cost_matrix) ==
    {NearestFree(cost_matrix, 1,
                 1..(IF cost_matrix = <<>> THEN 0 ELSE Len(cost_matrix[1])), <<>>)}

\* lines 607-610: linear_sum_assignment returns a matching of least total cost
\* (which one among several is not specified)
hungarian_assignment(cost_matrix) ==
    LET all == Matchings(Len(cost_matrix),
                         IF cost_matrix = <<>> THEN 0 ELSE Len(cost_matrix[1]))
        costs == {MatchingCost(cost_matrix, M) : M \in all}
        least == CHOOSE c \in costs : \A c2 \in costs : c <= c2
    IN  {PairList(M) : M \in {M \in all : MatchingCost(cost_matrix, M) = least}}

\* lines 80-98: the entries of the result and their total
AssignmentEntries(cost_matrix, optimal_assignment) ==
    [k \in 1..Len(optimal_assignment) |->
        [order_id |-> optimal_assignment[k][1],
         partner_id |-> optimal_assignment[k][2],
         cost |-> cost_matrix[optimal_assignment[k][1]][optimal_assignment[k][2]]]]

NoOrdersAndNoPartners(d) ==
    /\ (IF d.has_orders THEN d.orders ELSE <<>>) = <<>>
    /\ (IF d.has_partners THEN d.partners ELSE <<>>) = <<>>

\* lines 67-72: `not orders or not partners`
NoOrdersOrNoPartners(d) ==
    \/ (IF d.has_orders THEN d.orders ELSE <<>>) = <<>>
    \/ (IF d.has_partners THEN d.partners ELSE <<>>) = <<>>

assign_orders_to_partners ==
    /\ pc = "idle"
    /\ UNCHANGED envVars
    /\ \E d \in AssignRequests :
          /\ data' = d
          /\ LET orders == IF d.has_orders THEN d.orders ELSE <<>>
                 partners == IF d.has_partners THEN d.partners ELSE <<>>
                 cost_matrix == create_assignment_matrix(orders, partners)
             IN  IF NoOrdersOrNoPartners(d)
                 THEN /\ response' = Error("ValueError", "Orders and partners required")
                      /\ UNCHANGED assignment_matrix
                 ELSE /\ assignment_matrix' = cost_matrix
                      /\ \E optimal_assignment \in hungarian_assignment(cost_matrix) :
                            LET assignments ==
                                    AssignmentEntries(cost_matrix, optimal_assignment)
                            IN  response' =
                                    [status |-> "ok",
                                     assignments |-> assignments,
                                     total_cost |->
                                         SumSeq([k \in 1..Len(assignments) |->
                                                    assignments[k].cost]),
                                     unassigned_orders |-> <<>>,
                                     unassigned_partners |-> <<>>]
    /\ pc' = "done"
    /\ UNCHANGED <<algorithm, invoked, hybridVars, gaVars, best_evaluated, ant_constructed, acoVars, result>>

\* ------------------------------- dynamic_route_adjustment (lines 285-322)
\* real-time deltas by their estimated added cost, thresholds in percent of
\* the cost of the current route
AddedCosts == {0, 1, 3}

ThresholdPercents == {10, 100}

AdjustRequests ==
    {[op |-> "dynamic_route_adjustment", current_route |-> pts,
      real_time_data |-> [added_cost |-> ac],
      adjustment_constraints |-> [threshold_percent |-> th]] :
        pts \in {q \in PointLists : Len(q) >= 2 /\ \A k \in 1..Len(q) : HasLocation(q, k)},
        ac \in AddedCosts,
        th \in ThresholdPercents}

\* lines 715-718
analyze_real_time_conditions(route, real_time_data) ==
    [primary_issue |-> "none", severity |-> "low"]

\* lines 720-723
evaluate_adjustment_need(analysis, adjustment_constraints) == FALSE

\* lines 725-728
generate_adjusted_route(current_route, analysis, adjustment_constraints) == current_route

\* lines 730-733
calculate_adjustment_impact(original_route, adjusted_route) ==
    [distance_change |-> 0, time_change |-> 0]

dynamic_route_adjustment ==
    /\ pc = "idle"
    /\ UNCHANGED envVars
    /\ \E d \in AdjustRequests :
          LET current_route == d.current_route
              real_time_analysis == analyze_real_time_conditions(current_route, d.real_time_data)
              adjustment_needed ==
                  evaluate_adjustment_need(real_time_analysis, d.adjustment_constraints)
              adjusted_route == generate_adjusted_route(current_route, real_time_analysis,
                                                        d.adjustment_constraints)
          IN  /\ data' = d
              /\ response' =
                    IF adjustment_needed
                    THEN [status |-> "ok", adjustment_needed |-> TRUE,
                          adjusted_route |-> adjusted_route,
                          adjustment_reason |-> real_time_analysis.primary_issue,
                          adjustment_impact |->
                              calculate_adjustment_impact(current_route, adjusted_route)]
                    ELSE [status |-> "ok", adjustment_needed |-> FALSE,
                          current_route_optimal |-> TRUE]
    /\ pc' = "done"
    /\ UNCHANGED <<algorithm, invoked, hybridVars, gaVars, best_evaluated, ant_constructed, acoVars, result,
                   assignVars>>

\* ------------------- the bridge endpoint POST /api/route/optimize
\* the coroutines RouteOptimizationService defines for callers (lines 27-386)
service_methods ==
    {"optimize_delivery_route", "assign_orders_to_partners", "calculate_delivery_zones",
     "optimize_multi_drop_route", "predict_traffic_impact", "calculate_fuel_efficiency",
     "optimize_return_routes", "dynamic_route_adjustment", "calculate_delivery_radius",
     "optimize_partner_workload"}

\* the attribute optimize_route (nodejs_bridge.py line 258) looks up
bridge_method == "optimize_route"

\* raise HTTPException(status_code=500, detail=str(e))
HTTPException(status_code, detail) ==
    [status |-> "error", type |-> "HTTPException", message |-> detail,
     http_status |-> status_code]

\* request bodies {"data": {...}} with delivery points
BridgeRequests ==
    {[op |-> "POST /api/route/optimize", data |-> d] :
        d \in {r \in RouteRequests :
                  /\ r.has_points
                  /\ r.delivery_points # <<>>
                  /\ r.constraints = BaseConstraints("greedy")}}

\* optimize_route of nodejs_bridge.py (lines 254-262): the attribute lookup
\* raises AttributeError, which the handler turns into HTTP 500; were the
\* attribute there, the service would serve request.data
optimize_route ==
    /\ pc = "idle"
    /\ UNCHANGED envVars
    /\ \E d \in BridgeRequests :
          IF bridge_method \in service_methods
          THEN ServeRoute(d.data)
          ELSE /\ data' = d
               /\ response' = HTTPException(500,
                     "'RouteOptimizationService' object has no attribute 'optimize_route'")
               /\ pc' = "done"
               /\ UNCHANGED <<algorithm, invoked, hybridVars, gaVars, best_evaluated, ant_constructed,
                              acoVars, result, assignVars>>

\* the request is over; the service waits for the next one
Reset ==
    /\ pc = "done"
    /\ UNCHANGED envVars
    /\ pc' = "idle"
    /\ data' = NoData
    /\ algorithm' = "none"
    /\ invoked' = <<>>
    /\ hybrid_i' = 0
    /\ results' = <<>>
    /\ failed' = <<>>
    /\ result' = NoResult
    /\ assignment_matrix' = <<>>
    /\ best_evaluated' = Inf
    /\ ant_constructed' = <<>>
    /\ response' = NoResponse
    /\ UNCHANGED <<gaVars, acoVars>>

Next ==
    \/ optimize_delivery_route
    \/ greedy_optimization
    \/ neural_network_optimization
    \/ ant_colony_iteration
    \/ ant_colony_return
    \/ genetic_initialize
    \/ genetic_select
    \/ genetic_pair
    \/ genetic_return
    \/ hybrid_next
    \/ hybrid_select
    \/ optimize_metrics
    \/ assign_orders_to_partners
    \/ dynamic_route_adjustment
    \/ optimize_route
    \/ Reset

Spec == Init /\ [][Next]_vars

\* ------------------------------------ invocations sharing `random`
\* The module imports `random` (line 12) and draws from its module-level
\* generator; the generator is a deterministic machine whose state every draw
\* advances.  Here it has RngPeriod states, and a shuffle is one draw.  No
\* line of the service seeds it or reads a seed from the request.
Invocations == {1, 2}

\* values a caller may put under constraints["seed"]
Seeds == {1, 2}

\* random.shuffle(route) in generator state `state` (Fisher-Yates, the
\* positions taken from the digits of the state)
RECURSIVE random_shuffle(_, _)
random_shuffle(route, state) ==
    IF route = <<>> THEN <<>>
    ELSE LET k == (state % Len(route)) + 1
         IN  <<route[k]>> \o random_shuffle(RemoveAt(route, k), state \div Len(route))

RunRequests ==
    {[delivery_points |-> pts, population_size |-> ps, generations |-> 0, seed |-> sd] :
        pts \in {q \in PointLists : Len(q) = MaxPoints /\ \A k \in 1..Len(q) : HasLocation(q, k)},
        ps \in 1..MaxRunPopulation,
        sd \in Seeds}

\* two invocations of genetic_algorithm_optimization about to start, the
\* generator in any state
InitRng ==
    /\ ServiceInit
    /\ rng_state \in 0..(RngPeriod - 1)
    /\ rng_start = rng_state
    /\ rng_writer = 0
    /\ CancelInit
    /\ DistanceInit
    /\ CrossoverInit
    /\ ClientInit
    /\ runs \in [Invocations ->
                    {[pc |-> "initialize", request |-> r, population |-> <<>>,
                      route |-> None, after |-> FALSE, foreign |-> FALSE] :
                        r \in RunRequests}]

\* one pass of the loop of initialize_population (lines 779-782).  History:
\* `after` tells that the invocation began when another had finished,
\* `foreign` that it drew from a state another invocation had written
initialize_population_pass(t) ==
    /\ runs[t].pc = "initialize"
    /\ Len(runs[t].population) < runs[t].request.population_size
    /\ LET route == [k \in 1..Len(runs[t].request.delivery_points) |-> k]
       IN  runs' = [runs EXCEPT
                      ![t].population = Append(@, random_shuffle(route, rng_state)),
                      ![t].after = IF runs[t].population = <<>>
                                   THEN \E u \in Invocations \ {t} : runs[u].pc = "done"
                                   ELSE @,
                      ![t].foreign = @ \/ rng_writer \notin {0, t}]
    /\ rng_state' = (rng_state + 1) % RngPeriod
    /\ rng_writer' = t
    /\ UNCHANGED <<rng_start, serviceVars, cancelVars, timeoutVars, distanceVars, crossoverVars,
                   clientVars>>

\* generations = 0: the loop of line 402 has no pass; lines 423-430
genetic_return_of(t) ==
    /\ runs[t].pc = "initialize"
    /\ Len(runs[t].population) = runs[t].request.population_size
    /\ LET pts == runs[t].request.delivery_points
           fitness_scores == [k \in 1..Len(runs[t].population) |->
                                 calculate_fitness(pts, runs[t].population[k])]
       IN  runs' = [runs EXCEPT
                      ![t].pc = "done",
                      ![t].route = runs[t].population[FirstMaxIndex(fitness_scores)]]
    /\ UNCHANGED <<rng_state, rng_start, rng_writer, serviceVars, cancelVars, timeoutVars, distanceVars, crossoverVars,
                   clientVars>>

concurrent_initialize == \E t \in Invocations : initialize_population_pass(t)

concurrent_return == \E t \in Invocations : genetic_return_of(t)

NextRng ==
    \/ concurrent_initialize
    \/ concurrent_return

SpecRng == InitRng /\ [][NextRng]_vars

\* ------------------------------------------- requests the caller abandons
\* The loops of genetic_algorithm_optimization (line 402) and of
\* ant_colony_optimization (line 449) contain no await and read no flag; the
\* caller's cancellation is a fact of the environment that no line observes.
CancelRounds == 2

LocatedLists(n) ==
    {pts \in PointLists : Len(pts) = n /\ \A k \in 1..n : HasLocation(pts, k)}

\* genetic and ant colony requests of up to CancelRounds generations or iterations
CancellableRequests ==
    {[op |-> "optimize_delivery_route", has_points |-> TRUE,
      delivery_points |-> pts, constraints |-> c] :
        pts \in LocatedLists(2),
        c \in {ConstraintsOf("genetic", tournament_size, g, MaxAnts, MaxIterations) :
                  g \in 1..CancelRounds}
              \cup {ConstraintsOf("ant_colony", tournament_size, 0, MaxAnts, it) :
                  it \in 1..CancelRounds}}

cancellable_request ==
    /\ pc = "idle"
    /\ UNCHANGED envVars
    /\ \E d \in CancellableRequests : ServeRoute(d)

\* the caller abandons the request while the loop of its strategy is running
\* (pc at the loop of line 402 or 449, or inside the body of a generation)
request_cancellation ==
    /\ pc \in {"genetic_loop", "genetic_pair", "ant_colony"}
    /\ ~cancel_requested
    /\ cancel_requested' = TRUE
    /\ stop_by' = (IF algorithm = "genetic" THEN generation ELSE iteration) + 1
    /\ UNCHANGED <<serviceVars, rngVars, timeoutVars, distanceVars, crossoverVars, clientVars>>

NextCancel ==
    \/ cancellable_request
    \/ request_cancellation
    \/ genetic_initialize
    \/ genetic_select
    \/ genetic_pair
    \/ genetic_return
    \/ ant_colony_iteration
    \/ ant_colony_return
    \/ optimize_metrics

SpecCancel == Init /\ [][NextCancel]_vars

\* --------------------------------------- sub-strategies that run long
\* hybrid_optimization awaits each sub-strategy to its end (lines 518-523):
\* no asyncio.wait_for, no clock is read.  That a sub-strategy is still
\* running when a time allowance ends is a fact of the environment.
TimedRequests ==
    {[op |-> "optimize_delivery_route", has_points |-> TRUE,
      delivery_points |-> pts, constraints |-> BaseConstraints(alg)] :
        pts \in LocatedLists(1) \cup LocatedLists(2) \cup LocatedLists(3),
        alg \in {"hybrid", "absent"}}

timed_request ==
    /\ pc = "idle"
    /\ UNCHANGED envVars
    /\ \E d \in TimedRequests : ServeRoute(d)

\* the allowance of the sub-strategy that is running ends before it finishes
timeout_expires ==
    /\ algorithm = "hybrid"
    /\ pc \in {"genetic", "genetic_loop", "ant_colony", "greedy"}
    /\ hybrid_algorithms[hybrid_i] \notin timed_out
    /\ timed_out' = timed_out \cup {hybrid_algorithms[hybrid_i]}
    /\ UNCHANGED <<serviceVars, rngVars, cancelVars, distanceVars, crossoverVars, clientVars>>

NextTimeout ==
    \/ timed_request
    \/ timeout_expires
    \/ hybrid_next
    \/ genetic_initialize
    \/ genetic_return
    \/ ant_colony_iteration
    \/ ant_colony_return
    \/ greedy_optimization
    \/ hybrid_select
    \/ optimize_metrics

SpecTimeout == Init /\ [][NextTimeout]_vars

\* ------------------------------ populations of even and of odd size
\* genetic requests over one point or two points, of every population size
\* a tournament can be drawn from, run for one or more generations
MaxEvolved == 4
MaxEvolvedGenerations == 2

EvolvedPoints == {<<Coord(0, 0)>>, <<Coord(0, 0), Coord(0, 90)>>}

EvolvedRequests ==
    {[op |-> "optimize_delivery_route", has_points |-> TRUE,
      delivery_points |-> pts, constraints |-> c] :
        pts \in EvolvedPoints,
        c \in {ConstraintsOf("genetic", ps, g, MaxAnts, MaxIterations) :
                  ps \in tournament_size..MaxEvolved, g \in 1..MaxEvolvedGenerations}}

evolved_request ==
    /\ pc = "idle"
    /\ UNCHANGED envVars
    /\ \E d \in EvolvedRequests : ServeRoute(d)

NextEvolved ==
    \/ evolved_request
    \/ genetic_initialize
    \/ genetic_select
    \/ genetic_pair
    \/ genetic_return
    \/ optimize_metrics

SpecEvolved == Init /\ [][NextEvolved]_vars

\* ------------------------------- calculate_distance on its own (541-556)
\* The haversine distance as a function of two coordinate dicts, over the
\* equator and both poles and over the meridians 0, 180 and -180 (the last
\* two are one meridian).
MaxMeasured == 2

Coordinates == {Coord(lat, lon) : lat \in {-90, 0, 90}, lon \in {-180, 0, 180}}

Measurement(point1, point2) ==
    [point1 |-> point1, point2 |-> point2,
     distance |-> calculate_distance(point1, point2)]

measure_distance ==
    /\ Len(measured) < MaxMeasured
    /\ \E point1, point2 \in Coordinates :
           measured' = Append(measured, Measurement(point1, point2))
    /\ UNCHANGED <<serviceVars, rngVars, cancelVars, timeoutVars, crossoverVars, clientVars>>

NextDistance == measure_distance

SpecDistance == Init /\ [][NextDistance]_vars

\* ------------------------------------- crossover on its own (800-829)
\* crossover as a function of two parent routes over the same points, with
\* the draws of random.random() and random.sample() it makes
MaxCrossed == 4

\* the parents: two orders of the same 0..MaxCrossed points
ParentPairs ==
    UNION {Shuffles(n) \X Shuffles(n) : n \in 0..MaxCrossed}

\* sorted(random.sample(range(size), 2)): start < end, 0-based
Cuts(size) == {c \in (0..(size - 1)) \X (0..(size - 1)) : c[1] < c[2]}

Crossing(parent1, parent2) ==
    [called |-> TRUE, parent1 |-> parent1, parent2 |-> parent2,
     applied |-> FALSE, raised |-> FALSE, start |-> 0, end |-> 0,
     child1 |-> parent1, child2 |-> parent2]

crossover ==
    /\ crossed = NoCrossover
    /\ \E pp \in ParentPairs, r \in RandomValues :
          LET parent1 == pp[1]
              parent2 == pp[2]
              size == Len(parent1)
          IN  IF r > default_crossover_rate
              THEN \* lines 802-803: the parents themselves
                   crossed' = Crossing(parent1, parent2)
              ELSE IF size < 2
              THEN \* line 807: random.sample raises ValueError
                   crossed' = [Crossing(parent1, parent2) EXCEPT
                                  !.applied = TRUE, !.raised = TRUE]
              ELSE \E c \in Cuts(size) :
                      crossed' = [Crossing(parent1, parent2) EXCEPT
                                     !.applied = TRUE,
                                     !.start = c[1], !.end = c[2],
                                     !.child1 = OrderCrossover(parent1, parent2, c[1], c[2]),
                                     !.child2 = OrderCrossover(parent2, parent1, c[1], c[2])]
    /\ UNCHANGED <<serviceVars, rngVars, cancelVars, timeoutVars, distanceVars, clientVars>>

\* the caller drops the result; the next call
crossover_returned ==
    /\ crossed # NoCrossover
    /\ crossed' = NoCrossover
    /\ UNCHANGED <<serviceVars, rngVars, cancelVars, timeoutVars, distanceVars, clientVars>>

NextCrossover ==
    \/ crossover
    \/ crossover_returned

SpecCrossover == Init /\ [][NextCrossover]_vars

\* ------------------- PythonServiceClient._make_request (api_client.py 50-82)
\* the bodies a JSON response can carry
Bodies == {"a", "b"}

\* what one attempt meets: a response whose body decodes as JSON, a response
\* whose body does not (response.json() raises), or no connection
Responses ==
    {[kind |-> "json", status |-> st, body |-> b] : st \in {200, 500}, b \in Bodies}
    \cup {[kind |-> "undecodable", status |-> st, body |-> "none"] : st \in {200, 500}}
    \cup {[kind |-> "refused", status |-> 0, body |-> "none"]}

\* what the attempts of one call meet, in order
ResponseSequences == [1..retry_attempts -> Responses]

Methods == {"GET", "post", "DELETE"}

\* method.upper()
Upper(method) ==
    CASE method = "get" -> "GET"
      [] method = "post" -> "POST"
      [] method = "delete" -> "DELETE"
      [] OTHER -> method

\* lines 55-73, one pass of the try block: the value returned or the
\* exception raised
Attempt(method, answer) ==
    IF Upper(method) \in {"GET", "POST"}
    THEN IF answer.kind = "refused"
         THEN [raised |-> TRUE, value |-> [type |-> "ClientConnectorError"]]
         ELSE IF answer.kind = "undecodable"
         THEN [raised |-> TRUE, value |-> [type |-> "ContentTypeError"]]
         ELSE IF answer.status = 200
         THEN [raised |-> FALSE, value |-> [body |-> answer.body]]
         ELSE [raised |-> TRUE,
               value |-> [type |-> "Exception", status |-> answer.status,
                          body |-> answer.body]]
    ELSE [raised |-> TRUE, value |-> [type |-> "Exception", method |-> method]]

\* the same pause after every failed attempt
FixedDelay(attempt) == retry_delay

\* line 78: retry_delay * (2 ** attempt) seconds
Backoff(attempt) == retry_delay * (2 ^ attempt)

\* the loop of lines 54-80 from pass `attempt` on; slept: the pauses so far
RECURSIVE MakeRequestFrom(_, _, _, _)
MakeRequestFrom(method, responses, attempt, slept) ==
    LET outcome == Attempt(method, responses[attempt + 1])
    IN  IF ~outcome.raised
        THEN [raised |-> FALSE, value |-> outcome.value,
              attempts |-> attempt + 1, slept |-> slept]
        ELSE IF attempt < retry_attempts - 1
        THEN MakeRequestFrom(method, responses, attempt + 1,
                             Append(slept, Backoff(attempt)))
        ELSE [raised |-> TRUE, value |-> outcome.value,
              attempts |-> attempt + 1, slept |-> slept]

make_request(method, responses) == MakeRequestFrom(method, responses, 0, <<>>)

\* a call of _make_request
client_request ==
    /\ \E method \in Methods, responses \in ResponseSequences :
          request' = [called |-> TRUE, method |-> method, responses |-> responses,
                      outcome |-> make_request(method, responses)]
    /\ UNCHANGED <<serviceVars, rngVars, cancelVars, timeoutVars, distanceVars,
                   crossoverVars, managerVars>>

NextRetry == client_request

SpecRetry == Init /\ [][NextRetry]_vars

\* ------------------------- PythonServiceManager (api_client.py 168-295)
\* Every manager method is one step: the time its awaits take is short of the
\* 60 s by which the clock advances here.
MaxClock == 420

Ticks == {60, 240}

\* what a POST of the manager can come to, whatever the server answers
PostOutcomes == {make_request("POST", responses) : responses \in ResponseSequences}

\* None
Miss == [body |-> "None"]

NotHealthy == [error |-> [message |-> "Python services are not healthy"]]

\* the same, an entry served up to the age of cache_ttl inclusive
get_cached_within(c, cache_key, t) ==
    IF c[cache_key].cached
    THEN IF t - c[cache_key].timestamp <= cache_ttl
         THEN [result |-> c[cache_key].result, cache |-> c]
         ELSE [result |-> Miss, cache |-> [c EXCEPT ![cache_key] = NoEntry]]
    ELSE [result |-> Miss, cache |-> c]

\* get_cached_result (lines 191-199) on cache c at time t: what it returns and
\* the cache it leaves
get_cached_result(c, cache_key, t) ==
    IF c[cache_key].cached
    THEN IF t - c[cache_key].timestamp < cache_ttl
         THEN [result |-> c[cache_key].result, cache |-> c]
         ELSE [result |-> Miss, cache |-> [c EXCEPT ![cache_key] = NoEntry]]
    ELSE [result |-> Miss, cache |-> c]

\* set_cached_result (lines 201-206)
set_cached_result(c, cache_key, value, t) ==
    [c EXCEPT ![cache_key] = [cached |-> TRUE, result |-> value, timestamp |-> t]]

\* the same, the service contacted on every call
check_health_every_time ==
    [is_healthy |-> service_healthy, last_health_check |-> now, checked |-> TRUE]

\* ensure_healthy (lines 179-189): the fields it leaves and whether it sent
\* GET /health; health_check answers "healthy" when the service is
ensure_healthy ==
    IF now - last_health_check > health_check_interval
    THEN [is_healthy |-> service_healthy, last_health_check |-> now, checked |-> TRUE]
    ELSE [is_healthy |-> is_healthy, last_health_check |-> last_health_check,
          checked |-> FALSE]

\* the call made last: what it returned, whether the cache answered it,
\* whether the service was asked for its health, the requests sent besides
Call(op, cache_key, value, hit, checked, sent) ==
    [op |-> op, key |-> cache_key, result |-> value, hit |-> hit,
     checked |-> checked, sent |-> sent, time |-> now]

\* time passes between two calls
tick ==
    /\ \E d \in Ticks :
          /\ now + d <= MaxClock
          /\ now' = now + d
    /\ UNCHANGED <<service_healthy, cache, stored, is_healthy, last_health_check, last>>
    /\ UNCHANGED <<serviceVars, rngVars, cancelVars, timeoutVars, distanceVars,
                   crossoverVars, retryVars>>

\* the service fails or recovers
service_changes ==
    /\ service_healthy' = ~service_healthy
    /\ UNCHANGED <<now, cache, stored, is_healthy, last_health_check, last>>
    /\ UNCHANGED <<serviceVars, rngVars, cancelVars, timeoutVars, distanceVars,
                   crossoverVars, retryVars>>

\* a call of get_cached_result
cache_get ==
    /\ \E cache_key \in CacheKeys :
          LET got == get_cached_result(cache, cache_key, now)
          IN  /\ cache' = got.cache
              /\ last' = Call("get_cached_result", cache_key, got.result,
                              got.result # Miss, FALSE, 0)
    /\ UNCHANGED <<now, service_healthy, stored, is_healthy, last_health_check>>
    /\ UNCHANGED <<serviceVars, rngVars, cancelVars, timeoutVars, distanceVars,
                   crossoverVars, retryVars>>

\* a call of set_cached_result
cache_set ==
    /\ \E cache_key \in CacheKeys, b \in Bodies :
          /\ cache' = set_cached_result(cache, cache_key, [body |-> b], now)
          /\ stored' = set_cached_result(stored, cache_key, [body |-> b], now)
          /\ last' = Call("set_cached_result", cache_key, Miss, FALSE, FALSE, 0)
    /\ UNCHANGED <<now, service_healthy, is_healthy, last_health_check>>
    /\ UNCHANGED <<serviceVars, rngVars, cancelVars, timeoutVars, distanceVars,
                   crossoverVars, retryVars>>

\* clear_cache (lines 293-295)
clear_cache ==
    /\ cache' = [key \in CacheKeys |-> NoEntry]
    /\ stored' = [key \in CacheKeys |-> NoEntry]
    /\ last' = Call("clear_cache", "none", Miss, FALSE, FALSE, 0)
    /\ UNCHANGED <<now, service_healthy, is_healthy, last_health_check>>
    /\ UNCHANGED <<serviceVars, rngVars, cancelVars, timeoutVars, distanceVars,
                   crossoverVars, retryVars>>

NextCache ==
    \/ tick
    \/ cache_get
    \/ cache_set
    \/ clear_cache

SpecCache == Init /\ [][NextCache]_vars

\* generate_daily_report (lines 208-228) of the data whose key is
\* "daily_report_1"
generate_daily_report ==
    /\ \E use_cache \in BOOLEAN, posted \in PostOutcomes :
          LET cache_key == "daily_report_1"
              got == IF use_cache THEN get_cached_result(cache, cache_key, now)
                     ELSE [result |-> Miss, cache |-> cache]
              health == ensure_healthy
          IN  IF use_cache /\ got.result # Miss
              THEN \* lines 213-215
                   /\ last' = Call("generate_daily_report", cache_key, got.result,
                                   TRUE, FALSE, 0)
                   /\ cache' = got.cache
                   /\ UNCHANGED <<stored, is_healthy, last_health_check>>
              ELSE /\ is_healthy' = health.is_healthy
                   /\ last_health_check' = health.last_health_check
                   /\ IF ~health.is_healthy
                      THEN \* lines 217-218
                           /\ last' = Call("generate_daily_report", cache_key,
                                           NotHealthy, FALSE, health.checked, 0)
                           /\ cache' = got.cache
                           /\ UNCHANGED stored
                      ELSE IF posted.raised
                      THEN \* lines 226-228
                           /\ last' = Call("generate_daily_report", cache_key,
                                           [error |-> posted.value], FALSE,
                                           health.checked, posted.attempts)
                           /\ cache' = got.cache
                           /\ UNCHANGED stored
                      ELSE \* lines 222-225
                           /\ last' = Call("generate_daily_report", cache_key,
                                           posted.value, FALSE, health.checked,
                                           posted.attempts)
                           /\ cache' = IF use_cache
                                       THEN set_cached_result(got.cache, cache_key,
                                                              posted.value, now)
                                       ELSE got.cache
                           /\ stored' = IF use_cache
                                        THEN set_cached_result(stored, cache_key,
                                                               posted.value, now)
                                        ELSE stored
    /\ UNCHANGED <<now, service_healthy>>
    /\ UNCHANGED <<serviceVars, rngVars, cancelVars, timeoutVars, distanceVars,
                   crossoverVars, retryVars>>

FraudTypes == {"orders", "payments", "accounts", "delivery", "refunds"}

\* detect_fraud (lines 252-271)
detect_fraud ==
    /\ \E fraud_type \in FraudTypes, posted \in PostOutcomes :
          LET health == ensure_healthy
          IN  /\ is_healthy' = health.is_healthy
              /\ last_health_check' = health.last_health_check
              /\ IF ~health.is_healthy
                 THEN last' = Call("detect_fraud", "none", NotHealthy, FALSE,
                                   health.checked, 0)
                 ELSE IF fraud_type \notin {"orders", "payments", "accounts", "delivery"}
                 THEN last' = Call("detect_fraud", "none",
                                   [error |-> [message |-> "Unknown fraud type",
                                              fraud_type |-> fraud_type]],
                                   FALSE, health.checked, 0)
                 ELSE IF posted.raised
                 THEN last' = Call("detect_fraud", "none", [error |-> posted.value],
                                   FALSE, health.checked, posted.attempts)
                 ELSE last' = Call("detect_fraud", "none", posted.value, FALSE,
                                   health.checked, posted.attempts)
    /\ UNCHANGED <<now, service_healthy, cache, stored>>
    /\ UNCHANGED <<serviceVars, rngVars, cancelVars, timeoutVars, distanceVars,
                   crossoverVars, retryVars>>

NextHealth ==
    \/ tick
    \/ service_changes
    \/ generate_daily_report
    \/ detect_fraud

SpecHealth == Init /\ [][NextHealth]_vars

\* ---------------------------------------------------------------- claims
RouteRequest == data.op = "optimize_delivery_route"

HybridRequest == RouteRequest /\ algorithm = "hybrid"

AssignRequest == data.op = "assign_orders_to_partners"

Answered == pc = "done" /\ response.status = "ok"

IsPermutationOfPoints(route) ==
    /\ Len(route) = Len(delivery_points)
    /\ Range(route) = 1..Len(delivery_points)

Distance(route) == calculate_total_distance(delivery_points, route)

\* the sub-strategies of a finished hybrid run that returned, in the order of results
Succeeded ==
    LET Returned(a) == a \notin Range(failed)
    IN  SelectSeq(hybrid_algorithms, Returned)

\* C1: every route a construction strategy returns, to hybrid_optimization or
\* to optimize_delivery_route, and every route in a response, is a
\* permutation of the input points: same length, each point exactly once.
C1_ReturnedRoutesArePermutations ==
    RouteRequest =>
        /\ \A k \in 1..Len(results) : IsPermutationOfPoints(results[k].route)
        /\ pc = "metrics" => IsPermutationOfPoints(result.route)
        /\ Answered => IsPermutationOfPoints(response.optimized_route)

\* C2: the route hybrid_optimization returns is the route of one of the
\* results its sub-strategies returned, and no such result has a smaller
\* total distance; the response carries that route and distance.
C2_HybridReturnsShortest ==
    (HybridRequest /\ result # NoResult) =>
        /\ \E k \in 1..Len(results) : results[k].route = result.route
        /\ \A k \in 1..Len(results) : Distance(result.route) <= Distance(results[k].route)
        /\ Answered =>
              /\ response.optimized_route = result.route
              /\ \A k \in 1..Len(results) :
                    response.total_distance <= Distance(results[k].route)

\* a hybrid answer where the sub-strategies returned routes of different length
C2_Witness ==
    /\ HybridRequest
    /\ Answered
    /\ \E j, k \in 1..Len(results) :
          /\ Distance(results[j].route) < Distance(results[k].route)
          /\ response.total_distance = Distance(results[j].route)

\* C3: a finished hybrid run has started all three sub-strategies whatever
\* failed, and if at least one of them returned, the caller got a route and
\* no exception.
C3_HybridContainsFailures ==
    (HybridRequest /\ pc = "done") =>
        /\ invoked = <<"hybrid">> \o hybrid_algorithms
        /\ results # <<>> => response.status = "ok"

\* C4: a hybrid request ends in an error if and only if every sub-strategy
\* failed, and the error is then "All optimization algorithms failed".
C4_HybridFailsIffAllFailed ==
    (HybridRequest /\ pc = "done") =>
        /\ response.status = "error" <=> Len(failed) = Len(hybrid_algorithms)
        /\ response.status = "error" =>
              response.message = "All optimization algorithms failed"

\* C5 as claimed: when some sub-strategies of a hybrid request failed and
\* others returned, algorithm_used names the sub-strategy that returned the
\* winning route.
C5_AlgorithmUsedNamesWinner ==
    (HybridRequest /\ Answered /\ failed # <<>>) =>
        \E k \in 1..Len(results) :
            /\ response.algorithm_used = Succeeded[k]
            /\ results[k].route = response.optimized_route

\* C5 as amended: the result hybrid_optimization returns is renamed "hybrid"
\* and algorithm_used is "hybrid", whichever sub-strategy won.
C5_AlgorithmUsedIsHybrid ==
    /\ (HybridRequest /\ result # NoResult) => result.algorithm = "hybrid"
    /\ (HybridRequest /\ Answered) => response.algorithm_used = "hybrid"

\* a hybrid answer after a failed and a successful sub-strategy
C5_Witness ==
    /\ HybridRequest
    /\ Answered
    /\ failed # <<>>
    /\ results # <<>>

\* the cost matrix made square by dummy rows or columns of cost 0 (a dummy
\* match is no assignment and adds nothing to total_cost)
PaddedSquare(cost_matrix) ==
    LET n == Len(cost_matrix)
        m == Len(cost_matrix[1])
        size == IF n < m THEN m ELSE n
    IN  [r \in 1..size |->
            [c \in 1..size |-> IF r <= n /\ c <= m THEN cost_matrix[r][c] ELSE 0]]

PerfectMatchingCosts(square) ==
    {SumSeq([r \in 1..Len(square) |-> square[r][p[r]]]) : p \in Perms(Len(square))}

\* C6: total_cost is the least sum of matched entries over all perfect
\* matchings of the padded square cost matrix; for the matrix [[1,4],[3,2]]
\* the assignment is order 1 to partner 1 and order 2 to partner 2.
C6_TotalCostIsMinimum ==
    (AssignRequest /\ Answered) =>
        LET all == PerfectMatchingCosts(PaddedSquare(assignment_matrix))
        IN  /\ response.total_cost \in all
            /\ \A c \in all : response.total_cost <= c
            /\ hungarian_assignment(<<<<1, 4>>, <<3, 2>>>>) = {<<<<1, 1>>, <<2, 2>>>>}

\* an answer for several orders and partners where matching each order in
\* turn to its cheapest free partner costs more
C6_Witness ==
    /\ AssignRequest
    /\ Answered
    /\ Len(data.orders) >= 2
    /\ Len(data.partners) >= 2
    /\ \E M \in row_by_row_assignment(assignment_matrix) :
          MatchingCost(assignment_matrix, Range(M)) > response.total_cost

AssignedOrders == {response.assignments[k].order_id : k \in 1..Len(response.assignments)}

AssignedPartners ==
    {response.assignments[k].partner_id : k \in 1..Len(response.assignments)}

\* C7: the orders without partner are the unassigned_orders, the partners
\* without order the unassigned_partners, and there are min(orders,
\* partners) assignments.
C7_UnmatchedAreReported ==
    (AssignRequest /\ Answered) =>
        /\ Range(response.unassigned_orders) = (1..Len(data.orders)) \ AssignedOrders
        /\ Range(response.unassigned_partners) =
               (1..Len(data.partners)) \ AssignedPartners
        /\ Len(response.assignments) =
               IF Len(data.orders) < Len(data.partners)
               THEN Len(data.orders) ELSE Len(data.partners)

\* C8: no order is assigned twice and no partner gets more orders than its
\* capacity.
C8_CapacityRespected ==
    (AssignRequest /\ Answered) =>
        /\ \A j, k \in 1..Len(response.assignments) :
              response.assignments[j].order_id = response.assignments[k].order_id
                  => j = k
        /\ \A b \in 1..Len(data.partners) :
              Cardinality({k \in 1..Len(response.assignments) :
                              response.assignments[k].partner_id = b})
                  <= data.partners[b].capacity

\* C9: a request without delivery points (key missing or list empty) is
\* answered at once by the ValueError "No delivery points provided": no
\* strategy has been called and no result exists.
C9_NoPointsIsInvalidInput ==
    (RouteRequest /\ delivery_points = <<>>) =>
        /\ pc = "done"
        /\ response = Error("ValueError", "No delivery points provided")
        /\ invoked = <<>>
        /\ result = NoResult
        /\ results = <<>>

\* the request has the key "delivery_points" with an empty list
C9_Witness ==
    /\ RouteRequest
    /\ data.has_points
    /\ data.delivery_points = <<>>
    /\ pc = "done"

\* C10: an assignment request without orders or without partners is
\* answered at once by the ValueError "Orders and partners required", no
\* cost matrix has been built, and no answer has an empty assignment list.
C10_NoOrdersOrPartnersIsInfeasible ==
    AssignRequest =>
        /\ ((IF data.has_orders THEN data.orders ELSE <<>>) = <<>>
                \/ (IF data.has_partners THEN data.partners ELSE <<>>) = <<>>) =>
              /\ pc = "done"
              /\ response = Error("ValueError", "Orders and partners required")
              /\ assignment_matrix = <<>>
        /\ Answered => response.assignments # <<>>

\* orders were given, the partner list is empty
C10_Witness ==
    /\ AssignRequest
    /\ data.has_orders
    /\ data.orders # <<>>
    /\ data.has_partners
    /\ data.partners = <<>>
    /\ pc = "done"

\* C11: a request with exactly one delivery point is answered, by every
\* strategy and without error, with the one-element route of that point and
\* total distance 0.
C11_SinglePointIsTrivialRoute ==
    (RouteRequest /\ Len(delivery_points) = 1 /\ pc = "done") =>
        /\ response.status = "ok"
        /\ response.optimized_route = <<1>>
        /\ response.total_distance = 0

\* the distance between the points at positions a and b of the input
PointDistance(a, b) == calculate_distance(delivery_points[a], delivery_points[b])

\* C12: the greedy route starts with points[0], every later element is a
\* point of least distance to its predecessor among the points not yet in
\* the route, and the reported total distance is the sum of the consecutive
\* edges of the open path, without an edge back to the start.
C12_GreedyTakesNearestUnvisited ==
    (RouteRequest /\ algorithm = "greedy" /\ result # NoResult) =>
        LET route == result.route
            n == Len(delivery_points)
        IN  /\ Len(route) = n
            /\ route[1] = 1
            /\ \A k \in 2..n :
                  \A p \in (1..n) \ {route[j] : j \in 1..(k - 1)} :
                      PointDistance(route[k - 1], route[k]) <= PointDistance(route[k - 1], p)
            /\ Answered =>
                  /\ response.optimized_route = route
                  /\ response.total_distance =
                         SumSeq([k \in 1..(n - 1) |-> PointDistance(route[k], route[k + 1])])

\* a greedy answer that visits the third point before the second, the second
\* being farther from the start, and whose path is shorter than the closed tour
C12_Witness ==
    /\ RouteRequest
    /\ algorithm = "greedy"
    /\ Answered
    /\ response.optimized_route = <<1, 3, 2>>
    /\ PointDistance(1, 3) < PointDistance(1, 2)
    /\ response.total_distance = PointDistance(1, 3) + PointDistance(3, 2)
    /\ PointDistance(2, 1) > 0

\* C13: the route the genetic algorithm returns is at least as fit as every
\* individual the run has evaluated in any generation, i.e. no evaluated
\* individual has a smaller total distance.
C13_GeneticReturnsBestEverEvaluated ==
    (RouteRequest /\ algorithm = "genetic" /\ result # NoResult) =>
        /\ best_evaluated # Inf
        /\ Distance(result.route) <= best_evaluated

\* C14: two runs of the genetic strategy on the same points, with the same
\* parameters and the same caller-supplied seed, one after the other, return
\* the same route.
C14_SameSeedSameRoute ==
    \A t, u \in DOMAIN runs :
        (/\ runs[t].pc = "done"
         /\ runs[u].pc = "done"
         /\ runs[u].after
         /\ runs[t].request = runs[u].request) => runs[t].route = runs[u].route

\* what an invocation with request r returns when it runs alone from
\* generator state `state`
AloneRoute(r, state) ==
    LET route == [k \in 1..Len(r.delivery_points) |-> k]
        alone == [k \in 1..r.population_size |->
                     random_shuffle(route, (state + k - 1) % RngPeriod)]
        fitness_scores == [k \in 1..Len(alone) |->
                              calculate_fitness(r.delivery_points, alone[k])]
    IN  alone[FirstMaxIndex(fitness_scores)]

\* C15: concurrent invocations share no mutable state: none reads a value
\* (here the generator state) that another has written, and each returns
\* what it would return when run alone.
C15_InvocationsShareNothing ==
    \A t \in DOMAIN runs :
        /\ ~runs[t].foreign
        /\ runs[t].pc = "done" => runs[t].route = AloneRoute(runs[t].request, rng_start)

\* C16: a genetic or ant colony run whose request the caller has cancelled
\* stops at the next generation or iteration boundary: it completes at most
\* the generation or iteration under way (counted generously as one more
\* than were complete at the time of the cancellation) and none after it.
C16_CancelledRunStopsAtBoundary ==
    cancel_requested =>
        /\ generation <= stop_by
        /\ iteration <= stop_by

\* C17: in a hybrid request a sub-strategy that was still running when its
\* timeout expired counts as failed like one that raised: once it is over it
\* is among the failed, its result is not among the results, and the answer
\* is the best of the other results.
C17_TimedOutStrategyCountsAsFailed ==
    (HybridRequest /\ pc \in {"hybrid", "metrics", "done"}) =>
        /\ timed_out \subseteq Range(failed)
        /\ Len(results) + Len(failed) = hybrid_i

\* C18: dynamic_route_adjustment reports adjustment_needed = true exactly
\* when the estimated added cost of the real-time delta exceeds the
\* threshold fraction of the total cost of the current route.
C18_AdjustmentNeededIffOverThreshold ==
    (data.op = "dynamic_route_adjustment" /\ Answered) =>
        LET route == [k \in 1..Len(data.current_route) |-> k]
            total_cost == calculate_total_distance(data.current_route, route)
        IN  response.adjustment_needed <=>
                data.real_time_data.added_cost * 100
                    > data.adjustment_constraints.threshold_percent * total_cost

\* C19 as claimed: estimated_time is total_distance / base_speed_kmh * 60 +
\* (number of route points) * stop_minutes, with the values the caller gave
\* under the keys "base_speed_kmh" and "stop_minutes" (defaults if absent).
C19_EstimateUsesKmhKeys ==
    (RouteRequest /\ Answered) =>
        LET n == Len(response.optimized_route)
        IN  /\ response.estimated_time.travel_time
                   * Get(constraints.base_speed_kmh, default_base_speed)
                 = response.total_distance * 60
            /\ response.estimated_time.stop_time_total
                 = n * Get(constraints.stop_minutes, default_stop_time)

\* C19 as amended: the same formula with the values the caller gave under
\* the keys "base_speed" (default 30) and "stop_time" (default 5); the keys
\* "base_speed_kmh" and "stop_minutes" are not read.
C19_EstimateUsesBaseSpeedAndStopTime ==
    (RouteRequest /\ Answered) =>
        LET n == Len(response.optimized_route)
            speed == IF constraints.base_speed = Absent THEN 30 ELSE constraints.base_speed
            stop == IF constraints.stop_time = Absent THEN 5 ELSE constraints.stop_time
        IN  /\ response.estimated_time.travel_time * speed = response.total_distance * 60
            /\ response.estimated_time.stop_time_total = n * stop

\* an answer for a route of positive length whose request gives all four
\* keys, with different values
C19_Witness ==
    /\ RouteRequest
    /\ Answered
    /\ response.total_distance > 0
    /\ constraints.base_speed = 60
    /\ constraints.stop_time = 10
    /\ constraints.base_speed_kmh = 20
    /\ constraints.stop_minutes = 2

\* C20: a request POSTed to /api/route/optimize with delivery data is
\* dispatched to an operation RouteOptimizationService provides and is
\* answered with a success response (HTTP 200), not an error.
C20_BridgeRouteOptimizeSucceeds ==
    (data.op = "POST /api/route/optimize" /\ pc = "done") =>
        /\ bridge_method \in service_methods
        /\ response.status = "ok"

C22_ParentsAreNotModified ==
    [][(pc = "genetic_pair" /\ pc' = "genetic_pair") =>
          \A parent \in Range(selected) \cup Range(population) :
              heap'[parent] = heap[parent]]_vars

\* the elements of child outside the positions [start, end), left to right
OutsideSegment(child, start, end) ==
    SubSeq(child, 1, start) \o SubSeq(child, end + 1, Len(child))

\* child is the order crossover of first and second cut at [start, end)
IsOrderCrossover(child, first, second, start, end) ==
    LET segment == {first[k] : k \in (start + 1)..end}
        NotInSegment(x) == x \notin segment
    IN  /\ Len(child) = Len(first)
        /\ \A k \in (start + 1)..end : child[k] = first[k]
        /\ OutsideSegment(child, start, end) = SelectSeq(second, NotInSegment)
        /\ Range(child) = Range(first)
        /\ \A a, b \in 1..Len(child) : child[a] = child[b] => a = b

\* C23: when crossover is applied to two parent permutations of the same
\* points with cut indices start < end, child1 has parent1's points at
\* [start, end) and, in its other positions from left to right, the points of
\* parent2 not in that segment in parent2's order; symmetrically child2; both
\* children are permutations of the parents' points.
C23_ChildrenAreOrderCrossovers ==
    (crossed.called /\ crossed.applied /\ ~crossed.raised) =>
        /\ crossed.start < crossed.end
        /\ IsOrderCrossover(crossed.child1, crossed.parent1, crossed.parent2,
                            crossed.start, crossed.end)
        /\ IsOrderCrossover(crossed.child2, crossed.parent2, crossed.parent1,
                            crossed.start, crossed.end)

\* a crossover whose children differ from both parents
C23_Witness ==
    /\ crossed.called /\ crossed.applied /\ ~crossed.raised
    /\ crossed.parent1 # crossed.parent2
    /\ crossed.child1 \notin {crossed.parent1, crossed.parent2}
    /\ crossed.child2 \notin {crossed.parent1, crossed.parent2}
    /\ crossed.end - crossed.start >= 2
    /\ crossed.start > 0 /\ crossed.end < Len(crossed.parent1)

\* the routes ant colony runs of this request have returned, to
\* optimize_delivery_route or to hybrid_optimization
ColonyReturned ==
    (IF result.algorithm = "ant_colony" THEN {result.route} ELSE {})
    \cup {results[k].route : k \in {j \in 1..Len(results) : results[j].algorithm = "ant_colony"}}

\* C24: for ant_count >= 1 and iterations >= 1, the route ant_colony_optimization
\* returns is one of the routes some ant built in some iteration, and no route
\* any ant built in the run has a smaller total distance.
C24_ColonyReturnsBestConstructed ==
    (RouteRequest /\ constraints.ant_count >= 1 /\ constraints.iterations >= 1) =>
        \A route \in ColonyReturned :
            /\ route \in Range(ant_constructed)
            /\ \A built \in Range(ant_constructed) : Distance(route) <= Distance(built)

\* an ant colony run of several ants and several iterations over three points
\* has returned its route
C24_Witness ==
    /\ RouteRequest
    /\ algorithm = "ant_colony"
    /\ constraints.ant_count >= 2 /\ constraints.iterations >= 2
    /\ Len(delivery_points) = MaxPoints
    /\ pc = "metrics"
    /\ Len(ant_constructed) >= 4
    /\ ColonyReturned # {}

\* an edge some ant route built so far goes along, in either direction
OnAnAntRoute(a, b) ==
    \E k \in 1..Len(ant_constructed) :
        \E e \in 1..(Len(ant_constructed[k]) - 1) :
            {ant_constructed[k][e], ant_constructed[k][e + 1]} = {a, b}

\* C25: after k iterations of an ant colony run that started from the all-1.0
\* matrix, an edge no ant went along has pheromone (1 - evaporation_rate)^k
\* (every iteration multiplies every entry by 1 - evaporation_rate), and an
\* edge on an ant's route has more (the deposits are positive).
C25_PheromonesEvaporateAndDeposit ==
    (RouteRequest /\ pc = "ant_colony" /\ iteration >= 1) =>
        \A a, b \in 1..Len(delivery_points) :
            LET pheromone == pheromone_matrix[a][b]
                kept == (100 - default_evaporation_rate) ^ iteration
                whole == 100 ^ iteration
            IN  IF OnAnAntRoute(a, b)
                THEN pheromone[1] * whole > pheromone[2] * kept
                ELSE pheromone[1] * whole = pheromone[2] * kept

\* C26: a request with delivery points whose constraints.algorithm is not a
\* registered strategy name is not rejected for it: the name is replaced by
\* "hybrid", the hybrid strategy is run, and a response reports
\* algorithm_used = "hybrid".
C26_UnknownAlgorithmRunsHybrid ==
    (RouteRequest /\ delivery_points # <<>>
        /\ data.constraints.algorithm \notin algorithms \cup {"absent"}) =>
            /\ algorithm = "hybrid"
            /\ invoked # <<>> /\ invoked[1] = "hybrid"
            /\ Answered => response.algorithm_used = "hybrid"

\* C27: in a genetic run with population_size >= 3, even or odd, the
\* population has exactly population_size individuals at the start and after
\* every generation, the mating pool has population_size members, and the pair
\* loop has emitted one child per pool member it has passed (the unpaired last
\* member of an odd pool is carried over).
C27_PopulationSizeIsKept ==
    (RouteRequest /\ algorithm = "genetic" /\ constraints.population_size >= 3) =>
        /\ pc = "genetic_loop" => Len(population) = constraints.population_size
        /\ pc = "genetic_pair" =>
              /\ Len(selected) = constraints.population_size
              /\ Len(new_population) = i

\* the second generation of a run is over, the population of odd size
C27_Witness ==
    /\ RouteRequest /\ algorithm = "genetic"
    /\ constraints.population_size = 3
    /\ pc = "genetic_loop"
    /\ generation = 2
    /\ Len(population) = 3

\* the same for a population of even size
C27_WitnessEven ==
    /\ RouteRequest /\ algorithm = "genetic"
    /\ constraints.population_size = 4
    /\ pc = "genetic_loop"
    /\ generation = 2
    /\ Len(population) = 4

\* the method is one _make_request sends
Supported(method) == method \in {"GET", "get", "POST", "post"}

\* the attempts of the last call that got HTTP 200
Got200 ==
    {k \in 1..retry_attempts :
        Supported(request.method) /\ request.responses[k].status = 200}

\* the attempts of the last call that got HTTP 200 with a body that decodes
GotJson200 ==
    {k \in Got200 : request.responses[k].kind = "json"}

\* the call returned the body of attempt k and made no attempt after it
ReturnedAttempt(k) ==
    /\ ~request.outcome.raised
    /\ request.outcome.value = [body |-> request.responses[k].body]
    /\ request.outcome.attempts = k

\* the call raised what its last attempt raised, after retry_attempts attempts
RaisedLast ==
    LET answer == request.responses[retry_attempts]
    IN  /\ request.outcome.raised
        /\ request.outcome.attempts = retry_attempts
        /\ request.outcome.value =
              IF ~Supported(request.method)
              THEN [type |-> "Exception", method |-> request.method]
              ELSE IF answer.kind = "refused" THEN [type |-> "ClientConnectorError"]
              ELSE IF answer.kind = "undecodable" THEN [type |-> "ContentTypeError"]
              ELSE [type |-> "Exception", status |-> answer.status,
                    body |-> answer.body]

\* 1 s after the first failed attempt, 2 s after the second, none after the last
PausesDouble ==
    /\ request.outcome.attempts <= retry_attempts
    /\ request.outcome.slept =
          [k \in 1..(request.outcome.attempts - 1) |-> IF k = 1 THEN 1 ELSE 2 * (k - 1)]

\* C28 (as stated): a call makes at most 3 attempts, returns the response of
\* the first attempt that gets HTTP 200 and makes no further attempt, pauses
\* 1 s and 2 s after the failed attempts but the last, and raises the last
\* attempt's exception exactly when no attempt got HTTP 200.
C28_ReturnsFirst200 ==
    request.called =>
        /\ PausesDouble
        /\ IF Got200 = {} THEN RaisedLast
           ELSE ReturnedAttempt(CHOOSE k \in Got200 : \A j \in Got200 : k <= j)

\* C28 (amended): the same, where the attempt that ends the call is the first
\* that gets HTTP 200 with a body response.json() can decode; an attempt whose
\* body cannot be decoded fails whatever its status.
C28_ReturnsFirstDecoded200 ==
    request.called =>
        /\ PausesDouble
        /\ IF GotJson200 = {} THEN RaisedLast
           ELSE ReturnedAttempt(CHOOSE k \in GotJson200 : \A j \in GotJson200 : k <= j)

\* a call that failed twice, paused 1 s and 2 s, and returned the third answer
C28_Witness ==
    /\ request.called
    /\ ~request.outcome.raised
    /\ request.outcome.attempts = 3
    /\ request.outcome.slept = <<1, 2>>
    /\ request.responses[1].status = 500

\* C29: get_cached_result(key) returns a stored result only if that result was
\* stored for the key less than cache_ttl (300) seconds earlier and the cache
\* was not cleared since; for an entry of age >= cache_ttl it returns None and
\* removes that entry, leaving every other entry as it was.
C29_CacheServesNoStaleEntry ==
    [][(last' # last /\ last'.op = "get_cached_result") =>
          LET key == last'.key
          IN  /\ last'.result # Miss =>
                    /\ stored[key].cached
                    /\ last'.result = stored[key].result
                    /\ now - stored[key].timestamp < 300
              /\ (cache[key].cached /\ now - cache[key].timestamp >= 300) =>
                    /\ last'.result = Miss
                    /\ cache'[key] = NoEntry
                    /\ \A other \in CacheKeys \ {key} : cache'[other] = cache[other]]_vars

\* get_cached_result has met an entry exactly cache_ttl old, returned None and
\* removed it, and the other key's entry is still there
C29_Witness ==
    /\ last.op = "get_cached_result"
    /\ last.result = Miss
    /\ stored[last.key].cached
    /\ last.time - stored[last.key].timestamp = 300
    /\ ~cache[last.key].cached
    /\ \E other \in CacheKeys \ {last.key} : cache[other].cached

\* C30: a manager operation the cache does not answer contacts the service
\* for its health exactly when more than health_check_interval (60) seconds
\* have passed since the last check, and otherwise goes by the stored
\* is_healthy; so when the stored is_healthy is false and no more than 60
\* seconds have passed, it returns the 'not healthy' error and sends nothing,
\* whatever the state of the service.
C30_HealthIsCheckedOncePerInterval ==
    [][(last' # last /\ last'.op \in {"generate_daily_report", "detect_fraud"}
            /\ ~last'.hit) =>
          /\ last'.checked <=> now - last_health_check > 60
          /\ ~last'.checked => (is_healthy' = is_healthy
                                   /\ last_health_check' = last_health_check)
          /\ (~is_healthy /\ now - last_health_check <= 60) =>
                /\ last'.result = NotHealthy
                /\ last'.sent = 0
                /\ ~last'.checked]_vars

\* 60 seconds after a check that found the service unhealthy, the service
\* healthy again, an operation was refused without any request
C30_Witness ==
    /\ last.op \in {"generate_daily_report", "detect_fraud"}
    /\ last_health_check > 0
    /\ last.time - last_health_check = 60
    /\ service_healthy
    /\ ~is_healthy
    /\ last.result = NotHealthy
    /\ ~last.checked
    /\ last.sent = 0

====
